---- MODULE Spec2Model ----
(***************************************************************************)
(* Shairport Sync MQTT media player (custom_components/shairport_sync).    *)
(*                                                                         *)
(* The entity ShairportSyncMediaPlayer keeps a small state record that is  *)
(* written by the MQTT subscription callbacks and read by the host through *)
(* the entity's properties.  User commands are relayed to the remote topic.*)
(* The config flow collects name / topic / description.                    *)
(*                                                                         *)
(* Representation                                                          *)
(*   text and byte payloads : tuples of one-character (or one-byte) strings*)
(*   Optional[x]            : <<>> for None, <<x>> for a present value     *)
(*   float                  : [kind, v]; kind "fin" carries v in tenths,   *)
(*                            kind "inf" carries the sign in v, kind "nan" *)
(*   float ratio (fraction) : [kind, n, d] standing for n / d              *)
(***************************************************************************)
EXTENDS Integers, Sequences, FiniteSets, TLC

\* Number of host events (inbound messages, commands, property reads, form
\* submissions) a behaviour may hold.
MaxEvents == 3

\* Number of inbound messages a behaviour of the entity's life may hold.
MaxLifeEvents == 1

-----------------------------------------------------------------------------
(* Optional values *)

None == <<>>

Some(x) == <<x>>

IsNone(o) == o = <<>>

-----------------------------------------------------------------------------
(* Python floats, as far as _cb_vol and volume_level use them *)

Fin(v) == [kind |-> "fin", v |-> v]

NaN == [kind |-> "nan", v |-> 0]

Inf(sign) == [kind |-> "inf", v |-> sign]

\* media_player.py:84-86, in tenths of a decibel
MIN_DB == Fin(-300)

MAX_DB == Fin(0)

\* a - b for the operands that occur (b finite)
FloatSub(a, b) ==
    IF a.kind = "fin" /\ b.kind = "fin" THEN Fin(a.v - b.v)
    ELSE IF a.kind = "nan" \/ b.kind = "nan" THEN NaN
    ELSE IF a.kind = "inf" THEN a
    ELSE Inf(0 - b.v)

DB_RANGE == FloatSub(MAX_DB, MIN_DB)

\* a < b: every comparison with nan is false
FloatLt(a, b) ==
    IF a.kind = "nan" \/ b.kind = "nan" THEN FALSE
    ELSE IF a.kind = "inf" THEN a.v < 0 /\ ~(b.kind = "inf" /\ b.v < 0)
    ELSE IF b.kind = "inf" THEN b.v > 0
    ELSE a.v < b.v

\* builtin min(a, b): the first argument unless the second is smaller
PyMin(a, b) == IF FloatLt(b, a) THEN b ELSE a

\* builtin max(a, b): the first argument unless the second is larger
PyMax(a, b) == IF FloatLt(a, b) THEN b ELSE a

\* a / b for a finite positive divisor, kept as an exact ratio
FloatDiv(a, b) ==
    IF a.kind = "fin" THEN [kind |-> "fin", n |-> a.v, d |-> b.v]
    ELSE [kind |-> a.kind, n |-> a.v, d |-> 1]

-----------------------------------------------------------------------------
(* str.split(",")[0] and float(str) *)

Digits == {"0", "1", "2", "3", "4", "5", "6", "7", "8", "9"}

DigitVal(c) ==
    CASE c = "0" -> 0 [] c = "1" -> 1 [] c = "2" -> 2 [] c = "3" -> 3
      [] c = "4" -> 4 [] c = "5" -> 5 [] c = "6" -> 6 [] c = "7" -> 7
      [] c = "8" -> 8 [] c = "9" -> 9

SetMin(S) == CHOOSE x \in S : \A y \in S : x <= y

\* payload.split(",")[0]: the text before the first comma (all of it if none)
SplitFirst(p) ==
    LET commas == {i \in 1..Len(p) : p[i] = ","}
    IN  IF commas = {} THEN p ELSE SubSeq(p, 1, SetMin(commas) - 1)

AllDigits(s) == \A i \in 1..Len(s) : s[i] \in Digits

RECURSIVE DecVal(_)
DecVal(s) == IF s = <<>> THEN 0 ELSE DecVal(SubSeq(s, 1, Len(s) - 1)) * 10 + DigitVal(s[Len(s)])

\* float(t) for the texts the payloads below hold: an optional sign followed by
\* nan, inf, infinity, or digits with at most one fractional digit (the value
\* is exact in tenths).  ok = FALSE stands for ValueError.
ParseFloat(t) ==
    LET signed == Len(t) > 0 /\ t[1] \in {"+", "-"}
        sign   == IF signed /\ t[1] = "-" THEN -1 ELSE 1
        body   == IF signed THEN Tail(t) ELSE t
        dots   == {i \in 1..Len(body) : body[i] = "."}
        ip     == IF dots = {} THEN body ELSE SubSeq(body, 1, SetMin(dots) - 1)
        fp     == IF dots = {} THEN <<>> ELSE SubSeq(body, SetMin(dots) + 1, Len(body))
    IN  IF body = <<"n", "a", "n">> THEN [ok |-> TRUE, val |-> NaN]
        ELSE IF body = <<"i", "n", "f">> \/ body = <<"i", "n", "f", "i", "n", "i", "t", "y">>
             THEN [ok |-> TRUE, val |-> Inf(sign)]
        ELSE IF /\ Cardinality(dots) <= 1
                /\ AllDigits(ip) /\ AllDigits(fp)
                /\ Len(ip) + Len(fp) >= 1
                /\ Len(fp) <= 1
             THEN [ok |-> TRUE, val |-> Fin(sign * (DecVal(ip) * 10 + DecVal(fp)))]
        ELSE [ok |-> FALSE, val |-> NaN]

-----------------------------------------------------------------------------
(* const.py *)

\* MediaPlayerState members used by the entity
IDLE == "idle"

PLAYING == "playing"

PAUSED == "paused"

\* const.py:15-33
TopLevelTopic ==
    [SSNC |-> "ssnc", CORE |-> "core", REMOTE |-> "remote",
     PLAY_START |-> "play_start", PLAY_RESUME |-> "play_resume",
     PLAY_END |-> "play_end", PLAY_FLUSH |-> "play_flush",
     ACTIVE_END |-> "active_end", ARTIST |-> "artist", ALBUM |-> "album",
     TITLE |-> "title", COVER |-> "cover", VOLUME |-> "volume",
     POSITION |-> "position", DURATION |-> "duration", SEEK |-> "seek"]

\* const.py:35-46; str() of a StrEnum member is its value
Command ==
    [PLAY |-> "play", PAUSE |-> "pause", STOP |-> "stop",
     SKIP_NEXT |-> "nextitem", SKIP_PREVIOUS |-> "previtem",
     VOLUME_UP |-> "volumeup", VOLUME_DOWN |-> "volumedown",
     SEEK_TO |-> "seek_to", SET_POSITION |-> "set_position"]

-----------------------------------------------------------------------------
(* Topic strings: tuples of characters and whole segments *)

\* str.rstrip("/")
RECURSIVE RStripSlash(_)
RStripSlash(t) ==
    IF t # <<>> /\ t[Len(t)] = "/" THEN RStripSlash(SubSeq(t, 1, Len(t) - 1)) ELSE t

\* f"{a}/{b}"
Join(a, b) == a \o <<"/", b>>

-----------------------------------------------------------------------------
(* ShairportSyncMediaPlayer.__init__ *)

NewPlayer(name, base_topic, description) ==
    LET base == RStripSlash(base_topic)
    IN  [name |-> name,
         base_topic |-> base,
         description |-> description,
         state |-> IDLE,
         title |-> None,
         artist |-> None,
         album |-> None,
         media_image |-> None,
         volume_db |-> None,
         duration |-> None,
         position |-> None,
         last_position_update |-> None,
         remote_topic |-> Join(Join(base, TopLevelTopic.SSNC), TopLevelTopic.REMOTE)]

-----------------------------------------------------------------------------
(* Properties read by the host *)

\* stand-in for hashlib.md5(b).hexdigest(): distinct blobs, distinct digests
MD5(b) == <<"md5">> \o b

\* bytes are falsy when empty
media_image_hash(s) ==
    IF ~IsNone(s.media_image) /\ s.media_image[1] # <<>>
    THEN Some(MD5(s.media_image[1]))
    ELSE None

volume_level(s) ==
    IF IsNone(s.volume_db) THEN None
    ELSE Some(FloatDiv(FloatSub(s.volume_db[1], MIN_DB), DB_RANGE))

\* the dict holds a key exactly when the value here is present
extra_state_attributes(s) ==
    [description |-> Some(s.description),
     duration |-> s.duration,
     position |-> s.position]

\* the keys of an attributes dict
AttrKeys(attrs) == {k \in DOMAIN attrs : ~IsNone(attrs[k])}

\* What the host records when it reads the entity
Props(s) ==
    [state |-> s.state,
     media_title |-> s.title,
     media_artist |-> s.artist,
     media_album_name |-> s.album,
     media_image_hash |-> media_image_hash(s),
     volume_level |-> volume_level(s),
     extra_state_attributes |-> extra_state_attributes(s)]

-----------------------------------------------------------------------------
(* State *)

VARIABLES
    self,         \* the entity's fields
    ha_state,     \* what async_write_ha_state last handed to the host
    writes,       \* number of async_write_ha_state calls
    outbox,       \* messages handed to async_publish, in order
    last_read,    \* the values the host got from its last direct property read
    entries,      \* config entries created by the flow
    flow_result,  \* what the last async_step_user call returned
    config,       \* the configuration the entity was constructed from
    log,          \* the host events handled so far, in order
    pc,           \* where async_added_to_hass stands
    sub_calls,    \* the async_subscribe calls made, in order: <<topic, handler>>
    subscriptions,\* self._subscriptions: the unsubscribe handles, by call number
    active,       \* the call numbers whose subscription the host still holds
    removed       \* async_will_remove_from_hass has run

life_vars == <<pc, sub_calls, subscriptions, active, removed>>

vars == <<self, ha_state, writes, outbox, last_read, entries, flow_result, config, log,
          pc, sub_calls, subscriptions, active, removed>>

\* The entity together with the host objects its methods touch
World == [self |-> self, ha_state |-> ha_state, writes |-> writes, outbox |-> outbox]

-----------------------------------------------------------------------------
(* Subscription callbacks (closures of _subscribe_topics) *)

\* variant: a write that would change nothing is skipped
async_write_ha_state_debounced(w) ==
    IF w.ha_state = Some(Props(w.self)) THEN w
    ELSE [w EXCEPT !.ha_state = Some(Props(w.self)), !.writes = @ + 1]

\* Entity.async_write_ha_state: the host reads the properties and stores them
async_write_ha_state(w) ==
    [w EXCEPT !.ha_state = Some(Props(w.self)), !.writes = @ + 1]

\* variant: the volume survives the return to idle
set_state_keeps_volume(w, new) ==
    LET w1 == [w EXCEPT !.self.state = new]
        w2 == IF new = IDLE
              THEN [w1 EXCEPT !.self.title = None, !.self.artist = None,
                              !.self.album = None, !.self.media_image = None]
              ELSE w1
    IN  [w2 EXCEPT !.ha_state = Some(Props(w2.self)), !.writes = @ + 1]

\* variant: the state is written to the host before the fields are cleared
set_state_write_first(w, new) ==
    LET w1 == async_write_ha_state([w EXCEPT !.self.state = new])
    IN  IF new = IDLE
        THEN [w1 EXCEPT !.self.title = None, !.self.artist = None,
                        !.self.album = None, !.self.media_image = None,
                        !.self.volume_db = None]
        ELSE w1

set_state(w, new) ==
    LET w1 == [w EXCEPT !.self.state = new]
        w2 == IF new = IDLE
              THEN [w1 EXCEPT !.self.title = None, !.self.artist = None,
                              !.self.album = None, !.self.media_image = None,
                              !.self.volume_db = None]
              ELSE w1
    IN  async_write_ha_state(w2)

\* variant: a play event while playing pauses
cb_play_toggle(w, msg) ==
    async_write_ha_state(
        [w EXCEPT !.self.state = IF w.self.state = PLAYING THEN PAUSED ELSE PLAYING])

cb_play(w, msg) == set_state(w, PLAYING)

\* variant: a pause event is honoured only while playing
cb_pause_guarded(w, msg) ==
    async_write_ha_state(
        [w EXCEPT !.self.state = IF w.self.state = PLAYING THEN PAUSED ELSE @])

cb_pause(w, msg) == set_state(w, PAUSED)

cb_stop(w, msg) == set_state(w, IDLE)

\* variant: a field that is already set is kept
meta_updater_keep_first(attr, w, msg) ==
    LET w1 == CASE attr = "artist" ->
                    [w EXCEPT !.self.artist = IF IsNone(@) THEN Some(msg.payload) ELSE @]
                [] attr = "album"  ->
                    [w EXCEPT !.self.album = IF IsNone(@) THEN Some(msg.payload) ELSE @]
                [] attr = "title"  ->
                    [w EXCEPT !.self.title = IF IsNone(@) THEN Some(msg.payload) ELSE @]
    IN  async_write_ha_state(w1)

\* _meta_updater(attr) returns _upd; setattr(self, f"_{attr}", msg.payload)
meta_updater(attr, w, msg) ==
    LET w1 == CASE attr = "artist" -> [w EXCEPT !.self.artist = Some(msg.payload)]
                [] attr = "album"  -> [w EXCEPT !.self.album = Some(msg.payload)]
                [] attr = "title"  -> [w EXCEPT !.self.title = Some(msg.payload)]
    IN  async_write_ha_state(w1)

\* variant: cover payloads are taken as chunks of one image
cb_art_append(w, msg) ==
    LET w1 == [w EXCEPT !.self.media_image =
                   IF IsNone(@) THEN Some(msg.payload) ELSE Some(@[1] \o msg.payload)]
    IN  [w1 EXCEPT !.ha_state = Some(Props(w1.self)), !.writes = @ + 1]

cb_art(w, msg) ==
    async_write_ha_state([w EXCEPT !.self.media_image = Some(msg.payload)])

\* variant: a payload that does not parse resets the volume
cb_vol_reset_on_error(w, msg) ==
    LET parsed == ParseFloat(SplitFirst(msg.payload))
    IN  IF ~parsed.ok
        THEN async_write_ha_state([w EXCEPT !.self.volume_db = None])
        ELSE async_write_ha_state(
                 [w EXCEPT !.self.volume_db = Some(PyMax(PyMin(parsed.val, MAX_DB), MIN_DB))])

cb_vol(w, msg) ==
    LET parsed == ParseFloat(SplitFirst(msg.payload))
    IN  IF ~parsed.ok THEN w
        ELSE async_write_ha_state(
                 [w EXCEPT !.self.volume_db = Some(PyMax(PyMin(parsed.val, MAX_DB), MIN_DB))])

\* variant: the position placeholder is filled in
cb_position_store(w, msg) ==
    LET w1 == [w EXCEPT !.self.position = Some(msg.payload)]
    IN  [w1 EXCEPT !.ha_state = Some(Props(w1.self)), !.writes = @ + 1]

cb_position(w, msg) == w

cb_duration(w, msg) == w

\* variant: the position topic is built under the ssnc prefix like the events
topic_map_position_under_ssnc(s) ==
    LET ssnc_prefix == Join(s.base_topic, TopLevelTopic.SSNC)
        core_prefix == Join(ssnc_prefix, TopLevelTopic.CORE)
        E(cb, attr, enc) == [cb |-> cb, attr |-> attr, enc |-> enc]
    IN  <<
        <<Join(ssnc_prefix, TopLevelTopic.PLAY_START),  E("_cb_play", "", "utf-8")>>,
        <<Join(ssnc_prefix, TopLevelTopic.PLAY_RESUME), E("_cb_play", "", "utf-8")>>,
        <<Join(ssnc_prefix, TopLevelTopic.PLAY_END),    E("_cb_pause", "", "utf-8")>>,
        <<Join(ssnc_prefix, TopLevelTopic.PLAY_FLUSH),  E("_cb_pause", "", "utf-8")>>,
        <<Join(ssnc_prefix, TopLevelTopic.ACTIVE_END),  E("_cb_stop", "", "utf-8")>>,
        <<Join(ssnc_prefix, TopLevelTopic.COVER),       E("_cb_art", "", "none")>>,
        <<Join(ssnc_prefix, TopLevelTopic.VOLUME),      E("_cb_vol", "", "utf-8")>>,
        <<Join(core_prefix, TopLevelTopic.ARTIST),      E("_upd", "artist", "utf-8")>>,
        <<Join(core_prefix, TopLevelTopic.ALBUM),       E("_upd", "album", "utf-8")>>,
        <<Join(core_prefix, TopLevelTopic.TITLE),       E("_upd", "title", "utf-8")>>,
        <<Join(ssnc_prefix, TopLevelTopic.POSITION),    E("_cb_position", "", "utf-8")>>,
        <<Join(core_prefix, TopLevelTopic.DURATION),    E("_cb_duration", "", "utf-8")>>
        >>

\* topic -> (callback, attr, encoding), in the order of the dict literal
topic_map(s) ==
    LET ssnc_prefix == Join(s.base_topic, TopLevelTopic.SSNC)
        core_prefix == Join(ssnc_prefix, TopLevelTopic.CORE)
        E(cb, attr, enc) == [cb |-> cb, attr |-> attr, enc |-> enc]
    IN  <<
        <<Join(ssnc_prefix, TopLevelTopic.PLAY_START),  E("_cb_play", "", "utf-8")>>,
        <<Join(ssnc_prefix, TopLevelTopic.PLAY_RESUME), E("_cb_play", "", "utf-8")>>,
        <<Join(ssnc_prefix, TopLevelTopic.PLAY_END),    E("_cb_pause", "", "utf-8")>>,
        <<Join(ssnc_prefix, TopLevelTopic.PLAY_FLUSH),  E("_cb_pause", "", "utf-8")>>,
        <<Join(ssnc_prefix, TopLevelTopic.ACTIVE_END),  E("_cb_stop", "", "utf-8")>>,
        <<Join(ssnc_prefix, TopLevelTopic.COVER),       E("_cb_art", "", "none")>>,
        <<Join(ssnc_prefix, TopLevelTopic.VOLUME),      E("_cb_vol", "", "utf-8")>>,
        <<Join(core_prefix, TopLevelTopic.ARTIST),      E("_upd", "artist", "utf-8")>>,
        <<Join(core_prefix, TopLevelTopic.ALBUM),       E("_upd", "album", "utf-8")>>,
        <<Join(core_prefix, TopLevelTopic.TITLE),       E("_upd", "title", "utf-8")>>,
        <<Join(core_prefix, TopLevelTopic.POSITION),    E("_cb_position", "", "utf-8")>>,
        <<Join(core_prefix, TopLevelTopic.DURATION),    E("_cb_duration", "", "utf-8")>>
        >>

-----------------------------------------------------------------------------
(* Commands *)

\* variant: the publish is repeated
publish_cmd_twice(w, cmd) ==
    [w EXCEPT !.outbox = Append(Append(@, [topic |-> w.self.remote_topic, payload |-> cmd]),
                                [topic |-> w.self.remote_topic, payload |-> cmd])]

\* async_publish(self.hass, self._remote_topic, str(cmd))
publish_cmd(w, cmd) ==
    [w EXCEPT !.outbox = Append(@, [topic |-> w.self.remote_topic, payload |-> cmd])]

async_media_play(w) == publish_cmd(w, Command.PLAY)

\* variant: the entity reports paused as soon as the command is sent
async_media_pause_optimistic(w) ==
    async_write_ha_state([publish_cmd(w, Command.PAUSE) EXCEPT !.self.state = PAUSED])

async_media_pause(w) == publish_cmd(w, Command.PAUSE)

async_media_stop(w) == publish_cmd(w, Command.STOP)

-----------------------------------------------------------------------------
(* Config flow *)

\* ConfigFlow.async_create_entry / async_show_form results
async_create_entry(title, data) ==
    [type |-> "create_entry", title |-> title, data |-> Some(data), errors |-> {}]

async_show_form(step_id, errors) ==
    [type |-> "form", title |-> step_id, data |-> None, errors |-> errors]

\* user_input is None or the submitted fields
async_step_user(user_input) ==
    LET errors == {}
    IN  IF ~IsNone(user_input)
        THEN async_create_entry(user_input[1].name, user_input[1])
        ELSE async_show_form("user", errors)

-----------------------------------------------------------------------------
(* Inputs *)

\* base topics as configured, with and without trailing slashes
BaseTopics == {<<"s", "p">>, <<"s", "p", "/", "/">>}

VolumePayloads ==
    {<<"-", "1", "5", ".", "0", ",", "0", ",", "0", ",", "0">>,
     <<"-", "4", "5", ".", "5", ",", "0">>,
     <<"7">>,
     <<"i", "n", "f">>,
     <<"n", "a", "n">>,
     <<"b", "a", "n", "a", "n", "a">>,
     <<>>}

TextPayloads == {<<"A">>, <<"B", "b">>}

\* cover art bytes; the first is a zero-length payload
CoverPayloads == {<<>>, <<"ff", "d8">>}

PayloadsFor(h) ==
    CASE h.cb = "_cb_vol" -> VolumePayloads
      [] h.cb = "_cb_art" -> CoverPayloads
      [] h.cb = "_upd"    -> TextPayloads
      [] OTHER            -> {<<>>}

\* dict.items() of a dict literal: a repeated key keeps its first place and
\* its last value
RECURSIVE DictItems(_)
DictItems(pairs) ==
    IF pairs = <<>> THEN <<>>
    ELSE LET last == pairs[Len(pairs)]
             init == DictItems(SubSeq(pairs, 1, Len(pairs) - 1))
         IN  IF \E i \in 1..Len(init) : init[i][1] = last[1]
             THEN [i \in 1..Len(init) |-> IF init[i][1] = last[1] THEN last ELSE init[i]]
             ELSE Append(init, last)

\* topic_map.items() of an entity, per configured base topic
Subscribed ==
    [b \in {RStripSlash(t) : t \in BaseTopics} |-> DictItems(topic_map([base_topic |-> b]))]

FieldTexts == {"", "Den"}

TopicTexts == {"", "sp"}

UserInputs ==
    {None} \cup {Some([name |-> n, topic |-> t]) : n \in FieldTexts, t \in TopicTexts}

Ev(kind, what, payload) == [kind |-> kind, what |-> what, payload |-> payload]

-----------------------------------------------------------------------------
(* Behaviour *)

\* the entity as constructed
Constructed ==
    /\ config \in [name : {"Den"}, topic : BaseTopics, description : {"Shairport"}]
    /\ self = NewPlayer(config.name, config.topic, config.description)
    /\ ha_state = None
    /\ writes = 0
    /\ outbox = <<>>
    /\ last_read = None
    /\ entries = <<>>
    /\ flow_result = None
    /\ log = <<>>

\* constructed and activated: async_added_to_hass has run to its end
Init ==
    /\ Constructed
    /\ pc = "added"
    /\ sub_calls = Subscribed[self.base_topic]
    /\ subscriptions = [i \in 1..Len(sub_calls) |-> i]
    /\ active = 1..Len(sub_calls)
    /\ removed = FALSE

\* constructed, async_added_to_hass not yet called
InitLife ==
    /\ Constructed
    /\ pc = "constructed"
    /\ sub_calls = <<>>
    /\ subscriptions = <<>>
    /\ active = {}
    /\ removed = FALSE

\* one entity method ran to completion and left the world as w
Step(w, ev) ==
    /\ self' = w.self
    /\ ha_state' = w.ha_state
    /\ writes' = w.writes
    /\ outbox' = w.outbox
    /\ log' = Append(log, ev)
    /\ UNCHANGED <<last_read, entries, flow_result, config>>
    /\ UNCHANGED life_vars

\* the host calls the callback subscribed to the topic of an inbound message
Call(h, w, msg) ==
    CASE h.cb = "_cb_play"     -> cb_play(w, msg)
      [] h.cb = "_cb_pause"    -> cb_pause(w, msg)
      [] h.cb = "_cb_stop"     -> cb_stop(w, msg)
      [] h.cb = "_upd"         -> meta_updater(h.attr, w, msg)
      [] h.cb = "_cb_art"      -> cb_art(w, msg)
      [] h.cb = "_cb_vol"      -> cb_vol(w, msg)
      [] h.cb = "_cb_position" -> cb_position(w, msg)
      [] h.cb = "_cb_duration" -> cb_duration(w, msg)

Deliver(cb) ==
    \E i \in active :
        LET sub == sub_calls[i]
        IN  /\ sub[2].cb = cb
            /\ \E p \in PayloadsFor(sub[2]) :
                  LET msg == [topic |-> sub[1], payload |-> p]
                  IN  Step(Call(sub[2], World, msg), Ev("msg", msg.topic, msg.payload))

CbPlay ==
    /\ Len(log) < MaxEvents
    /\ Deliver("_cb_play")

CbPause ==
    /\ Len(log) < MaxEvents
    /\ Deliver("_cb_pause")

CbStop ==
    /\ Len(log) < MaxEvents
    /\ Deliver("_cb_stop")

Upd ==
    /\ Len(log) < MaxEvents
    /\ Deliver("_upd")

CbArt ==
    /\ Len(log) < MaxEvents
    /\ Deliver("_cb_art")

CbVol ==
    /\ Len(log) < MaxEvents
    /\ Deliver("_cb_vol")

CbPosition ==
    /\ Len(log) < MaxEvents
    /\ Deliver("_cb_position")

CbDuration ==
    /\ Len(log) < MaxEvents
    /\ Deliver("_cb_duration")

MediaPlay ==
    /\ Len(log) < MaxEvents
    /\ Step(async_media_play(World), Ev("cmd", <<"async_media_play">>, <<>>))

MediaPause ==
    /\ Len(log) < MaxEvents
    /\ Step(async_media_pause(World), Ev("cmd", <<"async_media_pause">>, <<>>))

MediaStop ==
    /\ Len(log) < MaxEvents
    /\ Step(async_media_stop(World), Ev("cmd", <<"async_media_stop">>, <<>>))

\* the host reads the entity's properties outside a state write
ReadProperties ==
    /\ Len(log) < MaxEvents
    /\ last_read' = Some(Props(self))
    /\ log' = Append(log, Ev("read", <<"props">>, <<>>))
    /\ UNCHANGED <<self, ha_state, writes, outbox, entries, flow_result, config>>
    /\ UNCHANGED life_vars

\* the flow manager calls the step and stores an entry when one is created
StepUser ==
    /\ Len(log) < MaxEvents
    /\ \E ui \in UserInputs :
          LET r == async_step_user(ui)
          IN  /\ flow_result' = Some(r)
              /\ entries' = IF r.type = "create_entry" THEN Append(entries, r.data[1]) ELSE entries
              /\ log' = Append(log, Ev("flow", <<"user">>,
                                       IF IsNone(ui) THEN <<>> ELSE <<ui[1].name, ui[1].topic>>))
              /\ UNCHANGED <<self, ha_state, writes, outbox, last_read, config>>
              /\ UNCHANGED life_vars

\* the entity: inbound messages, user commands, property reads
Next ==
    \/ CbPlay
    \/ CbPause
    \/ CbStop
    \/ Upd
    \/ CbArt
    \/ CbVol
    \/ CbPosition
    \/ CbDuration
    \/ MediaPlay
    \/ MediaPause
    \/ MediaStop
    \/ ReadProperties

Spec == Init /\ [][Next]_vars

\* async_added_to_hass: super().async_added_to_hass() has returned and
\* _subscribe_topics has built topic_map
AddedToHass ==
    /\ pc = "constructed"
    /\ pc' = "subscribing"
    /\ UNCHANGED <<self, ha_state, writes, outbox, last_read, entries, flow_result, config, log,
                   sub_calls, subscriptions, active, removed>>

\* the loop calls async_subscribe for the next item and awaits it; the host
\* holds the subscription from then on
SubscribeCall ==
    /\ pc = "subscribing"
    /\ sub_calls' = Append(sub_calls, Subscribed[self.base_topic][Len(sub_calls) + 1])
    /\ active' = active \cup {Len(sub_calls) + 1}
    /\ pc' = "awaiting"
    /\ UNCHANGED <<self, ha_state, writes, outbox, last_read, entries, flow_result, config, log,
                   subscriptions, removed>>

\* the await returns the unsubscribe handle, which is appended
SubscribeReturn ==
    /\ pc = "awaiting"
    /\ subscriptions' = Append(subscriptions, Len(sub_calls))
    /\ pc' = IF Len(sub_calls) = Len(Subscribed[self.base_topic]) THEN "added" ELSE "subscribing"
    /\ UNCHANGED <<self, ha_state, writes, outbox, last_read, entries, flow_result, config, log,
                   sub_calls, active, removed>>

\* async_will_remove_from_hass: every handle in the list at that moment is called
WillRemove ==
    /\ pc # "constructed"
    /\ ~removed
    /\ active' = active \ {subscriptions[i] : i \in 1..Len(subscriptions)}
    /\ removed' = TRUE
    /\ UNCHANGED <<self, ha_state, writes, outbox, last_read, entries, flow_result, config, log,
                   pc, sub_calls, subscriptions>>

\* the host delivers an inbound message to a subscription it holds
Dispatch ==
    /\ Len(log) < MaxLifeEvents
    /\ \E i \in active : Deliver(sub_calls[i][2].cb)

\* the entity's life: activation, inbound messages, teardown
NextLife ==
    \/ AddedToHass
    \/ SubscribeCall
    \/ SubscribeReturn
    \/ WillRemove
    \/ Dispatch

SpecLife == InitLife /\ [][NextLife]_vars

\* the config flow: submissions of the user step
NextFlow == StepUser

SpecFlow == Init /\ [][NextFlow]_vars

-----------------------------------------------------------------------------
(* Vocabulary of the properties *)

\* the configured base topic without its trailing slashes
BaseOf(t) ==
    LET keep == {j \in 0..Len(t) : j = 0 \/ t[j] # "/"}
    IN  SubSeq(t, 1, CHOOSE k \in keep : \A j \in keep : j <= k)

\* <base>/ssnc/ for each base topic that can be configured
SsncOf == [t \in BaseTopics |-> BaseOf(t) \o <<"/", "ssnc", "/">>]

\* <base>/ssnc/<a>
UnderSsnc(a) == SsncOf[config.topic] \o <<a>>

\* <base>/ssnc/core/<a>
UnderCore(a) == SsncOf[config.topic] \o <<"core", "/", a>>

Handled == log # <<>>

LastEv == log[Len(log)]

OnTopic(e, topic) == e.kind = "msg" /\ e.what = topic

\* the step appended an event e to the log
Appended(e) == log' = Append(log, e)

\* the step handled an inbound message on one of the topics
HandledOn(topics) ==
    /\ Len(log') = Len(log) + 1
    /\ \E t \in topics : OnTopic(log'[Len(log')], t)

Front(l) == SubSeq(l, 1, Len(l) - 1)

\* payload of the latest message on the topic since the last active_end
RECURSIVE LastPayload(_, _)
LastPayload(l, topic) ==
    IF l = <<>> THEN None
    ELSE IF OnTopic(l[Len(l)], UnderSsnc("active_end")) THEN None
    ELSE IF OnTopic(l[Len(l)], topic) THEN Some(l[Len(l)].payload)
    ELSE LastPayload(Front(l), topic)

\* the same, counting only volume payloads whose first token is a number
RECURSIVE LastVolume(_)
LastVolume(l) ==
    IF l = <<>> THEN None
    ELSE IF OnTopic(l[Len(l)], UnderSsnc("active_end")) THEN None
    ELSE IF /\ OnTopic(l[Len(l)], UnderSsnc("volume"))
            /\ ParseFloat(SplitFirst(l[Len(l)].payload)).ok
         THEN Some(ParseFloat(SplitFirst(l[Len(l)].payload)).val)
    ELSE LastVolume(Front(l))

\* clamp(d, -30, 0) on the extended reals, in tenths
Clamp(d) ==
    IF d.kind = "inf" THEN (IF d.v > 0 THEN Fin(0) ELSE Fin(-300))
    ELSE IF d.kind = "fin" THEN (IF d.v > 0 THEN Fin(0) ELSE IF d.v < -300 THEN Fin(-300) ELSE d)
    ELSE d

\* (c + 30) / 30
Fraction(c) == [kind |-> c.kind, n |-> c.v + 300, d |-> 300]

InUnitInterval(r) == r.kind = "fin" /\ r.d > 0 /\ 0 <= r.n /\ r.n <= r.d

Cleared(s) ==
    /\ IsNone(s.title) /\ IsNone(s.artist) /\ IsNone(s.album)
    /\ IsNone(s.media_image) /\ IsNone(s.volume_db)

-----------------------------------------------------------------------------
(* Properties *)

\* C1: after any sequence of inbound messages the stored decibel volume is
\* absent or a value within [-30.0, 0.0], for every payload whose first token
\* parses as a number, finite or not.
C1_VolumeDbInRange ==
    \/ IsNone(self.volume_db)
    \/ /\ self.volume_db[1].kind = "fin"
       /\ -300 <= self.volume_db[1].v
       /\ self.volume_db[1].v <= 0

\* C2: volume_level is None exactly when no decibel value is stored, and
\* otherwise equals (clamp(d, -30, 0) + 30) / 30 for the first token d of the
\* latest well-formed volume payload since the last active_end, and lies in
\* [0, 1].
C2_VolumeLevel ==
    /\ IsNone(volume_level(self)) <=> IsNone(self.volume_db)
    /\ IsNone(self.volume_db) <=> IsNone(LastVolume(log))
    /\ ~IsNone(LastVolume(log)) =>
          /\ volume_level(self) = Some(Fraction(Clamp(LastVolume(log)[1])))
          /\ InUnitInterval(volume_level(self)[1])

\* C3: once active_end has been handled the status is idle, title, artist,
\* album, artwork and volume are absent, and the state handed to the host by
\* that update already shows every one of them cleared.
C3_ActiveEndClears ==
    (Handled /\ OnTopic(LastEv, UnderSsnc("active_end"))) =>
        /\ self.state = IDLE
        /\ Cleared(self)
        /\ ~IsNone(ha_state)
        /\ ha_state[1].state = IDLE
        /\ IsNone(ha_state[1].media_title)
        /\ IsNone(ha_state[1].media_artist)
        /\ IsNone(ha_state[1].media_album_name)
        /\ IsNone(ha_state[1].media_image_hash)
        /\ IsNone(ha_state[1].volume_level)

\* C3 witness: play_start with metadata, then active_end
C3_Witness ==
    /\ Len(log) = 3
    /\ OnTopic(log[1], UnderSsnc("play_start"))
    /\ OnTopic(log[2], UnderCore("title"))
    /\ OnTopic(log[3], UnderSsnc("active_end"))
    /\ self.state = IDLE
    /\ ha_state[1].state = IDLE

\* the other fields of the record a status or metadata update must keep
KeepsMedia == 
    /\ self'.title = self.title /\ self'.artist = self.artist /\ self'.album = self.album
    /\ self'.media_image = self.media_image /\ self'.volume_db = self.volume_db

PlayTopics == {UnderSsnc("play_start"), UnderSsnc("play_resume")}

PauseTopics == {UnderSsnc("play_end"), UnderSsnc("play_flush")}

StopTopics == {UnderSsnc("active_end")}

ListedChange ==
    \/ self.state = IDLE /\ self'.state = PLAYING /\ HandledOn(PlayTopics)
    \/ self.state = PLAYING /\ self'.state = PAUSED /\ HandledOn(PauseTopics)
    \/ self.state = PAUSED /\ self'.state = PLAYING /\ HandledOn(PlayTopics)
    \/ self.state \in {PLAYING, PAUSED} /\ self'.state = IDLE /\ HandledOn(StopTopics)

\* C4 as stated: every change of the status is idle -> playing on
\* play_start/play_resume, playing -> paused on play_end/play_flush, paused ->
\* playing on play_start/play_resume, or playing/paused -> idle on active_end;
\* no other change, such as idle -> paused, occurs.
C4_OnlyListedChanges == [][self'.state # self.state => ListedChange]_vars

\* C4 amended: every change of the status is one of the listed ones or
\* idle -> paused on play_end/play_flush.
C4_ListedOrIdleToPaused ==
    [][self'.state # self.state =>
          \/ ListedChange
          \/ self.state = IDLE /\ self'.state = PAUSED /\ HandledOn(PauseTopics)]_vars

\* C4 witness: play_flush handled in the initial status
C4_Witness ==
    /\ Len(log) = 1
    /\ OnTopic(log[1], UnderSsnc("play_flush"))
    /\ self.state = PAUSED

MalformedVolume == {<<"b", "a", "n", "a", "n", "a">>, <<>>}

\* C5: a volume message whose leading token is not a number (banana, the
\* empty payload) changes no field of the record and emits no state write.
C5_MalformedVolumeDropped ==
    [][(HandledOn({UnderSsnc("volume")}) /\ log'[Len(log')].payload \in MalformedVolume)
          => UNCHANGED <<self, ha_state, writes, outbox>>]_vars

\* C5 witness: a stored volume survives a following banana payload
C5_Witness ==
    /\ Len(log) = 2
    /\ OnTopic(log[1], UnderSsnc("volume"))
    /\ OnTopic(log[2], UnderSsnc("volume"))
    /\ log[2].payload = <<"b", "a", "n", "a", "n", "a">>
    /\ self.volume_db = Some(Fin(-150))
    /\ writes = 1

Token(method) ==
    CASE method = "async_media_play"  -> "play"
      [] method = "async_media_pause" -> "pause"
      [] method = "async_media_stop"  -> "stop"

CommandsInvoked == SelectSeq(log, LAMBDA e : e.kind = "cmd")

\* C6: the outbound messages are, in order, exactly one per command invoked,
\* each carrying the command's token to <base>/ssnc/remote, where base is the
\* configured topic without trailing slashes.
C6_OneMessagePerCommand ==
    /\ Len(outbox) = Len(CommandsInvoked)
    /\ \A i \in 1..Len(outbox) :
          /\ outbox[i].topic = UnderSsnc("remote")
          /\ outbox[i].payload = Token(CommandsInvoked[i].what[1])

\* C6 witness: three commands relayed for a base topic configured with
\* trailing slashes
C6_Witness ==
    /\ config.topic = <<"s", "p", "/", "/">>
    /\ Len(outbox) = 3
    /\ <<outbox[1].payload, outbox[2].payload, outbox[3].payload>> = <<"play", "pause", "stop">>
    /\ outbox[1].topic = <<"s", "p", "/", "ssnc", "/", "remote">>

\* C7: a submission with an empty base topic or an empty name creates no
\* entry and shows the form again with a field error; entries exist only for
\* submissions with both fields non-empty.
C7_EmptyFieldRejected ==
    /\ \A i \in 1..Len(entries) : entries[i].name # "" /\ entries[i].topic # ""
    /\ (Handled /\ LastEv.kind = "flow" /\ LastEv.payload # <<>>
          /\ (LastEv.payload[1] = "" \/ LastEv.payload[2] = ""))
       => (flow_result[1].type = "form" /\ flow_result[1].errors # {})

C8_LastWins ==
    /\ self.title = LastPayload(log, UnderCore("title"))
    /\ self.artist = LastPayload(log, UnderCore("artist"))
    /\ self.album = LastPayload(log, UnderCore("album"))

C8_Frame ==
    /\ HandledOn({UnderCore("title")}) =>
          /\ self'.artist = self.artist /\ self'.album = self.album
          /\ self'.state = self.state /\ self'.media_image = self.media_image
          /\ self'.volume_db = self.volume_db
    /\ HandledOn({UnderCore("artist")}) =>
          /\ self'.title = self.title /\ self'.album = self.album
          /\ self'.state = self.state /\ self'.media_image = self.media_image
          /\ self'.volume_db = self.volume_db
    /\ HandledOn({UnderCore("album")}) =>
          /\ self'.title = self.title /\ self'.artist = self.artist
          /\ self'.state = self.state /\ self'.media_image = self.media_image
          /\ self'.volume_db = self.volume_db

\* C8: title, artist and album each hold verbatim the payload of the latest
\* message on their own core topic since the last active_end (absent if
\* none), and a message for one field leaves the other two, the status, the
\* artwork and the volume as they were.
C8_MetadataLastWins == []C8_LastWins /\ [][C8_Frame]_vars

\* C8 witness: two title messages with different text, the second one kept
C8_Witness ==
    /\ Len(log) = 2
    /\ OnTopic(log[1], UnderCore("title"))
    /\ OnTopic(log[2], UnderCore("title"))
    /\ log[1].payload # log[2].payload
    /\ self.title = Some(log[2].payload)

\* C9: a user command or a property read leaves the record, the state last
\* written to the host and the number of state writes as they were.
C9_CommandsAndReadsKeepState ==
    [][(Len(log') = Len(log) + 1 /\ log'[Len(log')].kind \in {"cmd", "read"})
          => UNCHANGED <<self, ha_state, writes>>]_vars

\* C9 witness: pause invoked while playing, the status still playing
C9_Witness ==
    /\ Len(log) = 3
    /\ OnTopic(log[1], UnderSsnc("play_start"))
    /\ log[2] = Ev("cmd", <<"async_media_pause">>, <<>>)
    /\ log[3].kind = "read"
    /\ self.state = PLAYING
    /\ ha_state[1].state = PLAYING
    /\ last_read[1].state = PLAYING
    /\ writes = 1

\* C10: from every status play_start and play_resume give playing, play_end
\* and play_flush give paused, and title, artist, album, artwork and volume
\* stay as they were.
C10_PlayPauseUnconditional ==
    [][/\ HandledOn(PlayTopics) => (self'.state = PLAYING /\ KeepsMedia)
       /\ HandledOn(PauseTopics) => (self'.state = PAUSED /\ KeepsMedia)]_vars

\* C10 witness: play_end handled while idle with a title stored
C10_Witness ==
    /\ Len(log) = 2
    /\ OnTopic(log[1], UnderCore("title"))
    /\ OnTopic(log[2], UnderSsnc("play_end"))
    /\ self.state = PAUSED
    /\ self.title = Some(log[1].payload)

MetaTopics == {UnderCore("title"), UnderCore("artist"), UnderCore("album")}

\* the status, cover and metadata topics, for each base topic
SignalTopicsOf ==
    [t \in BaseTopics |->
        {SsncOf[t] \o <<a>> : a \in {"play_start", "play_resume", "play_end", "play_flush",
                                     "active_end", "cover"}}
        \cup {SsncOf[t] \o <<"core", "/", a>> : a \in {"title", "artist", "album"}}]

\* a message whose handler ends in a state write
Signalling(e) ==
    /\ e.kind = "msg"
    /\ \/ e.what \in SignalTopicsOf[config.topic]
       \/ e.what = UnderSsnc("volume") /\ e.payload \notin MalformedVolume

\* C11: the number of state writes equals the number of handled messages on
\* the status, cover, metadata and well-formed volume topics, and the write
\* for such a message shows the record as that message left it.
C11_OneWritePerMessage ==
    /\ writes = Len(SelectSeq(log, Signalling))
    /\ (Handled /\ Signalling(LastEv)) => ha_state = Some(Props(self))

\* C11 witness: the same play_start twice (nothing changes), then a volume
C11_Witness ==
    /\ Len(log) = 3
    /\ OnTopic(log[1], UnderSsnc("play_start"))
    /\ log[2] = log[1]
    /\ OnTopic(log[3], UnderSsnc("volume"))
    /\ log[3].payload = <<"7">>
    /\ writes = 3

C12_NeverPopulated ==
    /\ IsNone(self.position)
    /\ IsNone(self.duration)
    /\ AttrKeys(extra_state_attributes(self)) = {"description"}
    /\ ~IsNone(ha_state) => AttrKeys(ha_state[1].extra_state_attributes) = {"description"}

C12_Discarded ==
    HandledOn({UnderCore("position"), UnderCore("duration")})
        => UNCHANGED <<self, ha_state, writes, outbox>>

C15_IdleImpliesCleared == self.state = IDLE => Cleared(self)

\* no title, artist, album, cover or well-formed volume message since the
\* initial state or the last active_end
RECURSIVE MediaSince(_)
MediaSince(l) ==
    IF l = <<>> THEN FALSE
    ELSE IF OnTopic(l[Len(l)], UnderSsnc("active_end")) THEN FALSE
    ELSE IF \/ OnTopic(l[Len(l)], UnderCore("title"))
            \/ OnTopic(l[Len(l)], UnderCore("artist"))
            \/ OnTopic(l[Len(l)], UnderCore("album"))
            \/ OnTopic(l[Len(l)], UnderSsnc("cover"))
            \/ /\ OnTopic(l[Len(l)], UnderSsnc("volume"))
               /\ ParseFloat(SplitFirst(l[Len(l)].payload)).ok
         THEN TRUE
    ELSE MediaSince(Front(l))

NoMediaSinceIdle == ~MediaSince(log)

\* C15 amended: whenever the status is idle and no metadata, cover or
\* well-formed volume message has been handled since the initial state or the
\* last active_end, title, artist, album, artwork and volume are all absent.
C15_IdleClearedUntilUpdated == (self.state = IDLE /\ NoMediaSinceIdle) => Cleared(self)

\* C15 witness: idle again after a session that had stored a volume
C15_Witness ==
    /\ Len(log) = 3
    /\ OnTopic(log[1], UnderSsnc("play_start"))
    /\ OnTopic(log[2], UnderSsnc("volume"))
    /\ log[2].payload = <<"7">>
    /\ OnTopic(log[3], UnderSsnc("active_end"))
    /\ self.state = IDLE
    /\ Cleared(self)

\* C16: the artwork hash is present exactly when an artwork blob is stored:
\* after a cover message with any payload, a zero-length one included, the
\* hash of that payload is reported until the next cover message or
\* active_end, and it is absent only when there was no cover message since
\* the initial state or the last active_end.
C16_HashIffArtwork ==
    /\ IsNone(media_image_hash(self)) <=> IsNone(self.media_image)
    /\ IsNone(media_image_hash(self)) <=> IsNone(LastPayload(log, UnderSsnc("cover")))
    /\ ~IsNone(LastPayload(log, UnderSsnc("cover"))) =>
          media_image_hash(self) = Some(<<"md5">> \o LastPayload(log, UnderSsnc("cover"))[1])

\* C17: handling the message that was handled last once more leaves the
\* record, and so the state shown to the host, as they are.
C17_DuplicateDeliveryHarmless ==
    [][(Handled /\ LastEv.kind = "msg" /\ log' = Append(log, LastEv))
          => (self' = self /\ ha_state' = ha_state /\ writes' >= writes)]_vars

\* C17 witness: the same cover payload delivered twice while playing
C17_Witness ==
    /\ Len(log) = 3
    /\ OnTopic(log[1], UnderSsnc("play_start"))
    /\ OnTopic(log[2], UnderSsnc("cover"))
    /\ log[2].payload = <<"ff", "d8">>
    /\ log[3] = log[2]
    /\ self.media_image = Some(<<"ff", "d8">>)
    /\ writes = 3

\* C13: once teardown has run and the subscribe loop has finished, no handler
\* of the entity is still subscribed, for every interleaving of teardown with
\* the awaited subscribe calls.
C13_TeardownUnsubscribesAll == (removed /\ pc = "added") => active = {}

\* the subscription table: topic, handler, attribute
SubscriptionTable ==
    {<<UnderSsnc("play_start"), "_cb_play", "">>,
     <<UnderSsnc("play_resume"), "_cb_play", "">>,
     <<UnderSsnc("play_end"), "_cb_pause", "">>,
     <<UnderSsnc("play_flush"), "_cb_pause", "">>,
     <<UnderSsnc("active_end"), "_cb_stop", "">>,
     <<UnderSsnc("cover"), "_cb_art", "">>,
     <<UnderSsnc("volume"), "_cb_vol", "">>,
     <<UnderCore("artist"), "_upd", "artist">>,
     <<UnderCore("album"), "_upd", "album">>,
     <<UnderCore("title"), "_upd", "title">>,
     <<UnderCore("position"), "_cb_position", "">>,
     <<UnderCore("duration"), "_cb_duration", "">>}

\* C14: a completed activation has made twelve subscribe calls, one for each
\* topic of the table and bound to its handler, and holds twelve unsubscribe
\* handles, one per call and no two the same.
C14_TwelveSubscriptions ==
    pc = "added" =>
        /\ Len(sub_calls) = 12
        /\ {<<sub_calls[i][1], sub_calls[i][2].cb, sub_calls[i][2].attr>> :
               i \in 1..Len(sub_calls)} = SubscriptionTable
        /\ Cardinality({sub_calls[i][1] : i \in 1..Len(sub_calls)}) = 12
        /\ Len(subscriptions) = 12
        /\ {subscriptions[i] : i \in 1..Len(subscriptions)} = 1..12
        /\ ~removed => active = 1..12

\* C14 witness: activation has finished, a message arrived on the last topic
\* subscribed
C14_Witness ==
    /\ pc = "added"
    /\ ~removed
    /\ Len(subscriptions) = 12
    /\ Len(log) = 1
    /\ OnTopic(log[1], UnderCore("duration"))

====
